---- MODULE Spec2Model ----
(***************************************************************************)
(* Rip orchestration of cord-ripper: the drive registry and the global     *)
(* MAKE_MKV mutex (makemkv_core.rs), the ripping subprocess with           *)
(* kill_on_drop (makemkv_helpers.rs) and the two interaction handlers that *)
(* race Rip::execute against the cancel button with tokio::select!         *)
(* (rip.rs: select_title_to_rip, select_titles_to_rip).                    *)
(*                                                                         *)
(* A handler slot is one spawned interaction_create task.  Every .await of *)
(* the source is a point where other handlers may run; code between two    *)
(* awaits runs in one poll.  run_rip is split at its statements so that    *)
(* the order lock / spawn / unlock / classify / relocate is visible, but   *)
(* the caller holds the MAKE_MKV guard over all of them.                   *)
(***************************************************************************)
EXTENDS Integers, Sequences, FiniteSets, TLC

\* ---------------------------------------------------------------- bounds
NumHandlers == 2
NumDrives == 2
MaxBatch == 2
MaxRequests == 2
MaxTitleLen == 3

Handlers == 1..NumHandlers
Drives == 1..NumDrives

\* A title is the sequence of its characters; "." is the only character
\* Path::with_extension looks at.
Chars == {"a", "."}
\* the title the concurrent rips of Spec use
Titles == {<<"a">>}
\* every title of up to MaxTitleLen characters that is a file name ("."
\* and ".." are not)
AllTitles ==
    (UNION {[1..n -> Chars] : n \in 1..MaxTitleLen}) \ {<<".">>, <<".", ".">>}
Seasons == {1}
None == 0

\* Exit code makemkvcon uses for "open disc failed"
OPEN_FAILED_CODE == 11
\* stdout line count above which exit code 11 is an unknown error
LINE_LIMIT == 3

VARIABLES
    pc,        \* position of each handler
    flow,      \* "movie" (select_title_to_rip) or "show" (select_titles_to_rip)
    drive,     \* Rip.drive_number of the handler's rips
    title,     \* Rip.title
    season,    \* RipType::Show.season
    nrips,     \* rips.len()
    idx,       \* 1-based position in the rips vector
    lastEp,    \* last_episode as returned by get_last_episode_in_dir
    drives,    \* MakeMkv.drives: HashSet<u8> of locked drive numbers
    holder,    \* history: the handler whose lock_drive inserted the entry
    mkvOwner,  \* handler holding the MAKE_MKV guard, or None
    mkvQueue,  \* FIFO of handlers waiting in MAKE_MKV.lock().await
    child,     \* makemkvcon child of the current rip
    output,    \* std::process::Output of the exited child
    staging,   \* TempDir of the current rip
    staged,    \* file names inside the TempDir
    dest,      \* directories and files below output_dir/movies and output_dir/shows
    outcome,   \* terminal outcome of the handler's current rip, "none" before
    reason,    \* error of the last failed rip
    placed,    \* history: the current rip renamed a file into dest
    lockOks,   \* history: lock_drive(d) calls that returned Ok since the last unlock_drive(d)
    verdict,   \* history: what check_makemkv_output returned for the current rip
    requests,  \* number of requests submitted so far
    cmd,       \* the makemkvcon invocation command.execute() is waiting for
    query,     \* the last get_title_info call of the handler
    moved,     \* history: the staged file the current rip renamed, and
               \* whether the rename replaced a file that was there
    disc       \* parse_disc_info at work: its state after the lines read so
               \* far, and (history) its state had the lines with codes it
               \* does not know been left out

vars == <<pc, flow, drive, title, season, nrips, idx, lastEp, drives, holder,
          mkvOwner, mkvQueue, child, output, staging, staged, dest, outcome,
          reason, placed, lockOks, verdict, requests, cmd, query, moved, disc>>

reqVars == <<flow, drive, title, season, nrips, query, disc>>
procVars == <<child, output, staging, staged, cmd>>
regVars == <<drives, holder, lockOks>>
mtxVars == <<mkvOwner, mkvQueue>>

\* ------------------------------------------------------------- registry
\* lock_drive that inserts without looking for the entry
lock_drive_NoCheck(reg, d) == [ok |-> TRUE, reg |-> reg \cup {d}]

\* lock_drive that reports success without inserting
lock_drive_NoInsert(reg, d) ==
    IF d \in reg THEN [ok |-> FALSE, reg |-> reg]
                 ELSE [ok |-> TRUE, reg |-> reg]

\* lock_drive: contains-check and insert under one guard of `drives`
lock_drive(reg, d) ==
    IF d \in reg THEN [ok |-> FALSE, reg |-> reg]
                 ELSE [ok |-> TRUE, reg |-> reg \cup {d}]

\* unlock_drive that leaves the entry in place
unlock_drive_Keep(reg, d) == reg

\* unlock_drive: unconditional remove
unlock_drive(reg, d) == reg \ {d}

\* ------------------------------------------------------ MAKE_MKV mutex
\* tokio::sync::Mutex is fair: the guard goes to the longest waiter, and a
\* new caller gets it at once only when nobody holds it or waits for it.
MkvAvailable(h) ==
    /\ mkvOwner = None
    /\ IF mkvQueue = <<>> THEN TRUE ELSE Head(mkvQueue) = h

\* a queue that keeps a waiter that was served or went away
Dequeue_Keep(q, h) == q

Dequeue(q, h) == SelectSeq(q, LAMBDA x : x # h)

\* ------------------------------------------------------------ classifier
\* ExitStatus::code() of a child killed by a signal is the Rust None
NoCode == -1
ExitCodes == {0, 1, OPEN_FAILED_CODE, NoCode}

NoOutput == [code |-> NoCode, utf8 |-> TRUE, marker |-> FALSE, lines |-> 0]

\* code: the exit code; utf8: String::from_utf8(stdout) succeeds;
\* marker: stdout contains "Failed to save"; lines: the number of lines of
\* stdout (stdout.lines().count() once it is decoded)
Outputs ==
    [code : ExitCodes,
     utf8 : BOOLEAN,
     marker : BOOLEAN,
     lines : {LINE_LIMIT, LINE_LIMIT + 1}]

\* the outputs the rips of Spec end with: a good one and one that
\* reported "Failed to save"
RipOutputs == {o \in Outputs : o.lines = LINE_LIMIT /\ o.code = 0 /\ o.utf8}

\* ExitStatus::success()
Success(o) == o.code = 0

\* a classifier that does not look for "Failed to save"
check_makemkv_output_NoMarker(o) ==
    IF ~o.utf8 THEN "InvalidOutputFormat"
    ELSE IF Success(o) THEN "Ok"
    ELSE IF o.code # NoCode /\ o.code = OPEN_FAILED_CODE
         THEN IF o.lines > LINE_LIMIT THEN "UnknownError" ELSE "DriveError"
         ELSE "UnknownError"

\* a classifier whose line test is >= instead of >
check_makemkv_output_OffByOne(o) ==
    IF ~o.utf8 THEN "InvalidOutputFormat"
    ELSE IF Success(o)
    THEN IF o.marker THEN "FailedToSaveDisc" ELSE "Ok"
    ELSE IF o.code # NoCode /\ o.code = OPEN_FAILED_CODE
         THEN IF o.lines >= LINE_LIMIT THEN "UnknownError" ELSE "DriveError"
         ELSE "UnknownError"

\* String::from_utf8(..)? comes first: its error is InvalidOutputFormat
check_makemkv_output(o) ==
    IF ~o.utf8 THEN "InvalidOutputFormat"
    ELSE IF Success(o)
    THEN IF o.marker THEN "FailedToSaveDisc" ELSE "Ok"
    ELSE IF o.code # NoCode /\ o.code = OPEN_FAILED_CODE
         THEN IF o.lines > LINE_LIMIT THEN "UnknownError" ELSE "DriveError"
         ELSE "UnknownError"

\* ------------------------------------------------------------- relocation
StagedSets == {{}, {"t00.mkv"}, {"t00.mkv", "t01.mkv"}, {"log.txt"}}
\* what the rips of Spec leave in the TempDir
RipStaged == {{}, {"t00.mkv"}}
\* a relocation that takes whatever file it finds
IsMkv_Any(f) == TRUE

\* path.extension() == "mkv"
IsMkv(f) == f \in {"t00.mkv", "t01.mkv"}

\* largest value of the u8 the episode numbers are kept in
U8_MAX == 255

\* episode: last_episode + (index as u8) + 1, index being 0-based, in u8:
\* a build without overflow checks wraps (one with them panics, see
\* EpisodeOverflow)
EpisodeOf(h, i) == (lastEp[h] + (i - 1) + 1) % (U8_MAX + 1)

\* ---- decimal numbers in file names: format!("{}", n) and str::parse
DigitChars == <<"0", "1", "2", "3", "4", "5", "6", "7", "8", "9">>
IsDigit(c) == \E i \in 1..10 : DigitChars[i] = c
DigitValue(c) == (CHOOSE i \in 1..10 : DigitChars[i] = c) - 1

\* Display of an unsigned number
RECURSIVE ToDigits(_)
ToDigits(n) ==
    IF n < 10 THEN <<DigitChars[n + 1]>>
    ELSE ToDigits(n \div 10) \o <<DigitChars[(n % 10) + 1]>>

RECURSIVE FromDigits(_)
FromDigits(w) ==
    IF w = <<>> THEN 0
    ELSE 10 * FromDigits(SubSeq(w, 1, Len(w) - 1)) + DigitValue(w[Len(w)])

\* the Err of str::parse::<u8>
NoEpisode == -1

\* str::parse::<u8>: a non-empty run of digits whose value fits in 8 bits
parse_u8(w) ==
    IF w = <<>> THEN NoEpisode
    ELSE IF \E i \in 1..Len(w) : ~IsDigit(w[i]) THEN NoEpisode
    ELSE IF FromDigits(w) > U8_MAX THEN NoEpisode
    ELSE FromDigits(w)

\* Path::file_stem of a file name: the name up to its last ".", or the
\* whole name when it has no "." or only a leading one
LastDot(name) ==
    LET dots == {i \in 1..Len(name) : name[i] = "."}
    IN IF dots = {} THEN 0 ELSE CHOOSE i \in dots : \A j \in dots : j <= i

file_stem(name) ==
    IF LastDot(name) <= 1 THEN name ELSE SubSeq(name, 1, LastDot(name) - 1)

\* a destination path that is left without its extension
with_extension_NoExt(name, ext) == name

\* Path::with_extension: whatever follows the file stem is replaced
with_extension(name, ext) == file_stem(name) \o <<".", ext>>

\* A file name of the destination tree is the sequence of its pieces:
\* "Episode " (with its blank), " ", single characters, and "mkv".
\* format!("Episode {}", episode)
EpisodeName(e) == <<"Episode ">> \o ToDigits(e)

\* destination_dir: movies/<title> or shows/<title>/Season <s>
DestinationDir(h) ==
    IF flow[h] = "movie"
    THEN <<"movies", title[h]>>
    ELSE <<"shows", title[h], season[h]>>

\* destination_path: movies/<title>/<title> or
\* shows/<title>/Season <s>/Episode <e>, both through with_extension("mkv")
DestinationPath(h) ==
    IF flow[h] = "movie"
    THEN <<"movies", title[h], with_extension(title[h], "mkv")>>
    ELSE <<"shows", title[h], season[h],
           with_extension(EpisodeName(EpisodeOf(h, idx[h])), "mkv")>>

\* ---- get_last_episode_in_dir
RECURSIVE SkipSpaces(_)
SkipSpaces(w) ==
    IF w = <<>> THEN w
    ELSE IF Head(w) = " " THEN SkipSpaces(Tail(w)) ELSE w

RECURSIVE TakeWord(_)
TakeWord(w) ==
    IF w = <<>> THEN w
    ELSE IF Head(w) = " " THEN <<>> ELSE <<Head(w)>> \o TakeWord(Tail(w))

\* file_name_str.split_whitespace().nth(1) of a name that starts with
\* "Episode ": the word after the blank, <<>> when there is none
SecondWord(name) == TakeWord(SkipSpaces(Tail(name)))

\* episode_str.replace(".mkv", "")
RECURSIVE RemoveMkv(_)
RemoveMkv(w) ==
    IF Len(w) < 2 THEN w
    ELSE IF w[1] = "." /\ w[2] = "mkv" THEN RemoveMkv(SubSeq(w, 3, Len(w)))
    ELSE <<w[1]>> \o RemoveMkv(Tail(w))

\* the episode number get_last_episode_in_dir reads from a file name, or
\* NoEpisode for a name it passes over
EpisodeNumber(name) ==
    IF name = <<>> THEN NoEpisode
    ELSE IF name[1] # "Episode " THEN NoEpisode
    ELSE IF SecondWord(name) = <<>> THEN NoEpisode
    ELSE parse_u8(RemoveMkv(SecondWord(name)))

\* the files of shows/<t>/Season <s>
SeasonFiles(t, s) ==
    {q[4] : q \in {r \in dest : IF Len(r) = 4 THEN r[2] = t /\ r[3] = s ELSE FALSE}}

RECURSIVE MaxOf(_)
MaxOf(S) ==
    IF S = {} THEN 0
    ELSE LET x == CHOOSE y \in S : TRUE
             m == MaxOf(S \ {x})
         IN IF x > m THEN x ELSE m

\* 0 when the season directory does not exist; else the largest number
\* read from a file of it, starting from 0
get_last_episode_in_dir(t, s) ==
    IF <<"shows", t, s>> \notin dest THEN 0
    ELSE MaxOf({EpisodeNumber(n) : n \in SeasonFiles(t, s)} \ {NoEpisode})

\* ------------------------------------------------- makemkvcon invocations
\* largest value of the u16 a title id is kept in
U16_MAX == 65535

\* a command that names the drive itself as the device
DevIndex_NoOffset(d) == d % (U8_MAX + 1)

\* format!("dev:/dev/sr{}", drive_number - 1) of Rip::run_rip, in u8
DevIndex(d) == (d - 1) % (U8_MAX + 1)

\* rip_details.title_id - 1, in u16
TitleIndex(t) == (t - 1) % (U16_MAX + 1)

NoCmd == [dev |-> -1, title |-> -1, title_id |-> 0]

\* makemkvcon mkv dev:/dev/sr<dev> <title> <staging directory>
MakeMkvCommand(d, tid) ==
    [dev |-> DevIndex(d), title |-> TitleIndex(tid), title_id |-> tid]

\* the title id the rips of Spec and SpecRip ask for
RipTitleIds == {1}
\* title ids a selection can carry: the menu value is parsed as u8
TitleIds == {1, 2, U8_MAX}

\* format!("dev:/dev/sr{}", drive_number - 1) of get_title_info, in u8
InfoDevIndex(d) == (d - 1) % (U8_MAX + 1)

\* 0-based position of the info code in the fields of a TINFO line
TINFO_CODE_FIELD == 1
\* 0-based position of the info code in the fields of a SINFO line
SINFO_CODE_FIELD == 2

\* One line of `makemkvcon -r info` output, as parse_disc_info looks at it:
\* kind is the prefix of the line, fields the number of its comma-separated
\* fields, head whether what follows the last ":" of the first field parses
\* as u8, code whether the field the info code is read from does (if the
\* line has that field); utf8 is String::from_utf8 of the whole output.
InfoLines ==
    [utf8 : BOOLEAN,
     kind : {"CINFO", "TINFO", "SINFO"},
     fields : 1..(SINFO_CODE_FIELD + 2),
     head : BOOLEAN,
     code : BOOLEAN]

\* the line lacks a field of its format (CINFO:c,f,v  TINFO:t,c,f,v
\* SINFO:t,s,c,f,v) or carries a code that is not a number
Malformed(l) ==
    IF l.kind = "CINFO" THEN l.fields < 3 \/ ~l.head
    ELSE IF l.kind = "TINFO" THEN l.fields < 4 \/ ~l.head \/ ~l.code
    ELSE l.fields < 5 \/ ~l.code

\* parse_disc_info on an output with the line l: "Ok", "Err" (a `?`
\* returned the error) or "Panic" (an index past the end of `info`)
parse_disc_info(l) ==
    IF ~l.utf8 THEN "Err"
    ELSE IF l.kind = "CINFO"
    THEN IF l.head THEN "Ok" ELSE "Err"
    ELSE IF l.kind = "TINFO"
    THEN IF ~l.head THEN "Err"
         ELSE IF l.fields < TINFO_CODE_FIELD + 1 THEN "Panic"
         ELSE IF l.code THEN "Ok" ELSE "Err"
    ELSE IF l.fields < SINFO_CODE_FIELD + 1 THEN "Panic"
         ELSE IF l.code THEN "Ok" ELSE "Err"

\* get_title_info: the command error and the parse error are mapped, a
\* panic of parse_disc_info unwinds through it
get_title_info(l, spawnOk) ==
    IF ~spawnOk THEN "CommandExecutionError"
    ELSE IF parse_disc_info(l) = "Err" THEN "ParseError"
    ELSE parse_disc_info(l)

NoQuery == [drive |-> 0, dev |-> -1, malformed |-> FALSE, result |-> "none",
            task |-> "none"]

\* --------------------------------------------------- the library on disk
MaxLibFiles == 2

\* names a season directory may hold: episodes 3, 255 and 300, a name with
\* no number, a name with a word after the number, a file that is no episode
LibNames ==
    {<<"Episode ", "3", ".", "mkv">>,
     <<"Episode ", "2", "5", "5", ".", "mkv">>,
     <<"Episode ", "3", "0", "0", ".", "mkv">>,
     <<"Episode ", "x", ".", "mkv">>,
     <<"Episode ", "4", " ", "x", ".", "mkv">>,
     <<"x", ".", "mkv">>}

\* shows/a/Season 1 with the files F
Library(F) ==
    {<<"shows", <<"a">>, 1>>} \cup {<<"shows", <<"a">>, 1, n>> : n \in F}

\* no season directory, or one with up to MaxLibFiles of the names
Libraries ==
    {{}} \cup {Library(F) : F \in {G \in SUBSET LibNames : Cardinality(G) <= MaxLibFiles}}

\* ------------------------------------------------- parse_disc_info, by line
MaxLines == 3

\* Title::default()
TitleDefault ==
    [title_id |-> 0, chapters |-> 0, length |-> "", size |-> "", bitrate |-> "",
     resolution |-> "", aspect_ratio |-> "", frame_rate |-> ""]

\* DiscInfo::default() and Title::default() before the first line
ParserStart ==
    [disc_name |-> "", titles |-> <<>>, title_info |-> TitleDefault, result |-> "Run"]

\* title codes of TINFO lines: the first two titles and the largest u8
TitleCodes == {0, 1, U8_MAX}

\* Well-formed lines of `makemkvcon -r info`.  code is the number after the
\* ":" (the CINFO code, the title code of a TINFO line), sub the info code
\* of a TINFO or SINFO line, value the cleaned last field ("x" is no
\* number).  27, 5 and CINFO 1 are codes the parser has no arm for.
DiscLines ==
    {[kind |-> "CINFO", code |-> c, sub |-> 0, value |-> "1"] : c \in {1, 2}}
    \cup {[kind |-> "TINFO", code |-> t, sub |-> c, value |-> "1"] :
             t \in TitleCodes, c \in {8, 9, 10, 27}}
    \cup {[kind |-> "TINFO", code |-> t, sub |-> 8, value |-> "x"] : t \in TitleCodes}
    \cup {[kind |-> "SINFO", code |-> 0, sub |-> c, value |-> "1"] :
             c \in {13, 19, 20, 21, 5}}

\* The body of the `for line` loop on the parser state st.  checked: the
\* build has overflow checks, so title_code + 1 panics where it would wrap.
ParseInfoLine(st, l, checked) ==
    IF st.result # "Run" THEN st
    ELSE IF l.kind = "CINFO"
    THEN IF l.code = 2 THEN [st EXCEPT !.disc_name = l.value] ELSE st
    ELSE IF l.kind = "TINFO"
    THEN IF l.code + 1 > U8_MAX /\ checked
         THEN [st EXCEPT !.result = "Panic"]
         ELSE LET t == [st EXCEPT !.title_info.title_id = (l.code + 1) % (U8_MAX + 1)]
              IN IF l.sub = 8
                 THEN IF l.value = "1"
                      THEN [t EXCEPT !.title_info.chapters = 1]
                      ELSE [t EXCEPT !.result = "Err"]
                 ELSE IF l.sub = 9 THEN [t EXCEPT !.title_info.length = l.value]
                 ELSE IF l.sub = 10 THEN [t EXCEPT !.title_info.size = l.value]
                 ELSE t
    ELSE IF l.sub = 13 THEN [st EXCEPT !.title_info.bitrate = l.value]
         ELSE IF l.sub = 19 THEN [st EXCEPT !.title_info.resolution = l.value]
         ELSE IF l.sub = 20 THEN [st EXCEPT !.title_info.aspect_ratio = l.value]
         ELSE IF l.sub = 21
         THEN [st EXCEPT !.title_info.frame_rate = l.value,
                         !.titles = Append(@, [st.title_info EXCEPT !.frame_rate = l.value])]
         ELSE st

\* the lines the parser has no arm for
UnknownCode(l) ==
    IF l.kind = "CINFO" THEN l.code # 2
    ELSE IF l.kind = "TINFO" THEN l.sub \notin {8, 9, 10}
    ELSE l.sub \notin {13, 19, 20, 21}

\* no file was renamed by the current rip
NoMove == [file |-> "none", over |-> FALSE]

\* ------------------------------------------------------------------ Init
\* everything but the library on disk
InitHandlers ==
    /\ pc = [h \in Handlers |-> "Idle"]
    /\ flow = [h \in Handlers |-> "movie"]
    /\ drive = [h \in Handlers |-> 1]
    /\ title = [h \in Handlers |-> <<"a">>]
    /\ season = [h \in Handlers |-> 1]
    /\ nrips = [h \in Handlers |-> 1]
    /\ idx = [h \in Handlers |-> 1]
    /\ lastEp = [h \in Handlers |-> 0]
    /\ drives = {}
    /\ holder = [d \in Drives |-> None]
    /\ mkvOwner = None
    /\ mkvQueue = <<>>
    /\ child = [h \in Handlers |-> "none"]
    /\ output = [h \in Handlers |-> NoOutput]
    /\ staging = [h \in Handlers |-> "none"]
    /\ staged = [h \in Handlers |-> {}]
    /\ outcome = [h \in Handlers |-> "none"]
    /\ reason = [h \in Handlers |-> "none"]
    /\ placed = [h \in Handlers |-> FALSE]
    /\ moved = [h \in Handlers |-> NoMove]
    /\ disc = [act |-> ParserStart, ref |-> ParserStart, lines |-> 0]
    /\ lockOks = [d \in Drives |-> 0]
    /\ verdict = [h \in Handlers |-> "none"]
    /\ requests = 0
    /\ cmd = [h \in Handlers |-> NoCmd]
    /\ query = [h \in Handlers |-> NoQuery]

\* the bot starts on an empty output directory
Init == InitHandlers /\ dest = {}

\* the bot starts on a library that already holds the season
InitLib == InitHandlers /\ dest \in Libraries

\* --------------------------------------------------------------- helpers
\* Drop of a Child built without kill_on_drop: the process runs on
KillOnDrop_Orphan(c) == c

\* Drop of tokio::process::Child built with kill_on_drop(true)
KillOnDrop(c) == IF c = "running" THEN "killed" ELSE c

\* a staging directory that is not removed when its handle is dropped
TempDirDrop_Leak(s) == s

\* Drop of tempfile::TempDir removes the directory
TempDirDrop(s) == IF s = "present" THEN "removed" ELSE s

\* holder follows the registry: set by the insert, cleared by the remove
NextHolder(newReg, h) ==
    [d \in Drives |->
        IF d \notin newReg THEN None
        ELSE IF d \notin drives THEN h ELSE holder[d]]


\* state of a rip that has not been executed yet
FreshRip(h) ==
    /\ child' = [child EXCEPT ![h] = "none"]
    /\ output' = [output EXCEPT ![h] = NoOutput]
    /\ staging' = [staging EXCEPT ![h] = "none"]
    /\ staged' = [staged EXCEPT ![h] = {}]
    /\ placed' = [placed EXCEPT ![h] = FALSE]
    /\ moved' = [moved EXCEPT ![h] = NoMove]
    /\ reason' = [reason EXCEPT ![h] = "none"]
    /\ outcome' = [outcome EXCEPT ![h] = "none"]
    /\ verdict' = [verdict EXCEPT ![h] = "none"]
    /\ cmd' = [cmd EXCEPT ![h] = NoCmd]

\* ------------------------------------------------------------- requests
\* interaction_create spawns run() for a select_title_to_rip (movie) or a
\* select_titles_to_rip (show, n selected titles) component interaction
Submit(h, f, d, t, s, n) ==
    /\ pc[h] \in {"Idle", "Done"}
    /\ requests < MaxRequests
    /\ f = "movie" => n = 1
    /\ requests' = requests + 1
    /\ flow' = [flow EXCEPT ![h] = f]
    /\ drive' = [drive EXCEPT ![h] = d]
    /\ title' = [title EXCEPT ![h] = t]
    /\ season' = [season EXCEPT ![h] = s]
    /\ nrips' = [nrips EXCEPT ![h] = n]
    /\ idx' = [idx EXCEPT ![h] = 1]
    /\ lastEp' = [lastEp EXCEPT ![h] = 0]
    /\ FreshRip(h)
    /\ pc' = [pc EXCEPT ![h] = IF f = "show" THEN "GetLast" ELSE "Announce"]
    /\ UNCHANGED <<regVars, mtxVars, dest, query, disc>>

\* get_last_episode_in_dir finds MAKE_MKV taken: it waits in the queue
GetLastEnqueue(h) ==
    /\ pc[h] = "GetLast"
    /\ ~MkvAvailable(h)
    /\ mkvQueue' = Append(mkvQueue, h)
    /\ pc' = [pc EXCEPT ![h] = "GetLastWait"]
    /\ UNCHANGED <<reqVars, procVars, regVars, mkvOwner, idx, lastEp, dest,
                   outcome, reason, placed, moved, verdict, requests>>

\* get_last_episode_in_dir with the guard: scans the season directory and
\* drops the guard on return (no await while it is held)
GetLast(h) ==
    /\ pc[h] \in {"GetLast", "GetLastWait"}
    /\ MkvAvailable(h)
    /\ mkvQueue' = Dequeue(mkvQueue, h)
    /\ lastEp' = [lastEp EXCEPT ![h] = get_last_episode_in_dir(title[h], season[h])]
    /\ pc' = [pc EXCEPT ![h] = "Announce"]
    /\ UNCHANGED <<reqVars, procVars, regVars, mkvOwner, idx, dest, outcome,
                   reason, placed, moved, verdict, requests>>

\* the "Ripping ..." message edit before the select!; its error is returned
\* with `?` and the rip is never executed
Announce(h, ok) ==
    /\ pc[h] = "Announce"
    /\ pc' = [pc EXCEPT ![h] = IF ok THEN "Select" ELSE "Done"]
    /\ lastEp' = [lastEp EXCEPT ![h] = IF ok THEN @ ELSE 0]
    /\ idx' = [idx EXCEPT ![h] = IF ok THEN @ ELSE 1]
    /\ UNCHANGED <<reqVars, procVars, regVars, mtxVars, dest, outcome,
                   reason, placed, moved, verdict, requests>>

\* ---------------------------------------------------------- Rip::execute
\* what every return of execute does: the MAKE_MKV guard, the Output and
\* the TempDir (if created) are dropped, and the select! takes the
\* completion branch
ExecuteReturns(h, res) ==
    /\ mkvOwner' = None
    /\ output' = [output EXCEPT ![h] = NoOutput]
    /\ staging' = [staging EXCEPT ![h] = TempDirDrop(@)]
    /\ staged' = [staged EXCEPT ![h] = IF TempDirDrop(staging[h]) = "present" THEN @ ELSE {}]
    /\ outcome' = [outcome EXCEPT ![h] = IF res = "Ok" THEN "Succeeded" ELSE "Failed"]
    /\ reason' = [reason EXCEPT ![h] = IF res = "Ok" THEN @ ELSE res]
    /\ pc' = [pc EXCEPT ![h] = IF res = "Ok" THEN "Advance" ELSE "ReportFail"]

\* another rip has its subprocess running on the drive of h
DriveBusy(h) ==
    \E g \in Handlers \ {h} : child[g] = "running" /\ drive[g] = drive[h]

\* first poll of rip.execute() inside the select!: MAKE_MKV.lock().await
ExecutePoll(h) ==
    /\ pc[h] = "Select"
    /\ IF MkvAvailable(h)
       THEN /\ mkvOwner' = h
            /\ mkvQueue' = Dequeue(mkvQueue, h)
            /\ pc' = [pc EXCEPT ![h] = "Locking"]
       ELSE /\ mkvQueue' = Append(mkvQueue, h)
            /\ pc' = [pc EXCEPT ![h] = "WaitMutex"]
            /\ UNCHANGED mkvOwner
    /\ UNCHANGED <<reqVars, procVars, regVars, idx, lastEp, dest, outcome,
                   reason, placed, moved, verdict, requests>>

\* the queued execute is handed the MAKE_MKV guard
ExecuteAcquire(h) ==
    /\ pc[h] = "WaitMutex"
    /\ MkvAvailable(h)
    /\ mkvOwner' = h
    /\ mkvQueue' = Dequeue(mkvQueue, h)
    /\ pc' = [pc EXCEPT ![h] = "Locking"]
    /\ UNCHANGED <<reqVars, procVars, regVars, idx, lastEp, dest, outcome,
                   reason, placed, moved, verdict, requests>>

\* run_rip: self.lock_drive(drive_number).await?
LockDrive(h) ==
    /\ pc[h] = "Locking"
    /\ LET r == lock_drive(drives, drive[h]) IN
       /\ drives' = r.reg
       /\ holder' = NextHolder(r.reg, h)
       /\ IF r.ok
          THEN /\ lockOks' = [lockOks EXCEPT ![drive[h]] = @ + 1]
               /\ pc' = [pc EXCEPT ![h] = "Starting"]
               /\ UNCHANGED <<mkvOwner, output, staging, staged, outcome, reason>>
          ELSE /\ ExecuteReturns(h, "DriveInUseError")
               /\ UNCHANGED lockOks
    /\ UNCHANGED <<reqVars, child, cmd, mkvQueue, idx, lastEp, dest, placed, moved, verdict, requests>>

\* run_rip: TempDir::with_prefix_in(..)?, then command.execute() spawns
\* makemkvcon; either error returns with `?` and the drive still locked.
\* tid is rip_details.title_id of this rip
StartRip(h, tmpOk, spawnOk, tid) ==
    /\ pc[h] = "Starting"
    /\ IF ~tmpOk
       THEN /\ spawnOk
            /\ ExecuteReturns(h, "TempDirError")
            /\ UNCHANGED <<child, cmd>>
       ELSE IF ~spawnOk
       THEN /\ ExecuteReturns(h, "CommandExecutionError")
            /\ UNCHANGED <<child, cmd>>
       ELSE /\ staging' = [staging EXCEPT ![h] = "present"]
            /\ child' = [child EXCEPT ![h] = "running"]
            /\ cmd' = [cmd EXCEPT ![h] = MakeMkvCommand(drive[h], tid)]
            /\ pc' = [pc EXCEPT ![h] = "Ripping"]
            /\ UNCHANGED <<mkvOwner, output, staged, outcome, reason>>
    /\ UNCHANGED <<reqVars, regVars, mkvQueue, idx, lastEp, dest, placed, moved, verdict, requests>>

\* makemkvcon exits, leaving its output and whatever it wrote
ChildExit(h, o, files) ==
    /\ pc[h] = "Ripping"
    /\ child[h] = "running"
    /\ child' = [child EXCEPT ![h] = "exited"]
    /\ output' = [output EXCEPT ![h] = o]
    /\ staged' = [staged EXCEPT ![h] = files]
    /\ UNCHANGED <<reqVars, regVars, mtxVars, pc, staging, cmd, idx, lastEp, dest,
                   outcome, reason, placed, moved, verdict, requests>>

\* a command.execute() that returns while makemkvcon is still running
Complete_NoWait(h) ==
    /\ pc[h] = "Ripping"
    /\ child[h] \in {"running", "exited"}
    /\ drives' = unlock_drive(drives, drive[h])
    /\ holder' = NextHolder(drives', h)
    /\ lockOks' = [lockOks EXCEPT ![drive[h]] = 0]
    /\ pc' = [pc EXCEPT ![h] = "Classify"]
    /\ cmd' = [cmd EXCEPT ![h] = NoCmd]
    /\ UNCHANGED <<reqVars, child, output, staging, staged, mtxVars, idx,
                   lastEp, dest, outcome, reason, placed, moved, verdict, requests>>

\* run_rip: command.execute() returned Ok(output); unlock_drive
Complete(h) ==
    /\ pc[h] = "Ripping"
    /\ child[h] = "exited"
    /\ drives' = unlock_drive(drives, drive[h])
    /\ holder' = NextHolder(drives', h)
    /\ lockOks' = [lockOks EXCEPT ![drive[h]] = 0]
    /\ pc' = [pc EXCEPT ![h] = "Classify"]
    /\ cmd' = [cmd EXCEPT ![h] = NoCmd]
    /\ UNCHANGED <<reqVars, child, output, staging, staged, mtxVars, idx,
                   lastEp, dest, outcome, reason, placed, moved, verdict, requests>>

\* run_rip: every classifier error is returned as FailedToSaveDisc
Classify(h) ==
    /\ pc[h] = "Classify"
    /\ verdict' = [verdict EXCEPT ![h] = check_makemkv_output(output[h])]
    /\ IF check_makemkv_output(output[h]) = "Ok"
       THEN /\ pc' = [pc EXCEPT ![h] = "Relocate"]
            /\ output' = [output EXCEPT ![h] = NoOutput]
            /\ UNCHANGED <<mkvOwner, staging, staged, outcome, reason>>
       ELSE ExecuteReturns(h, "FailedToSaveDisc")
    /\ UNCHANGED <<reqVars, regVars, child, cmd, mkvQueue, idx, lastEp, dest,
                   placed, moved, requests>>

\* a rename that refuses a target that exists
rename_NoReplace(files, p) == [ok |-> p \notin files, over |-> FALSE]

\* std::fs::rename: a file at the target path is replaced
rename(files, p) == [ok |-> TRUE, over |-> p \in files]

\* run_rip after a good classification: pick the first .mkv of read_dir,
\* create_dir_all, rename, TempDir::close; fs names the step that fails
FsResults == {"ok", "mkdir", "rename", "close"}

Relocate(h, f, fs) ==
    /\ pc[h] = "Relocate"
    /\ LET mkvs == {x \in staged[h] : IsMkv(x)} IN
       IF mkvs = {}
       THEN /\ f = "none"
            /\ fs = "ok"
            /\ ExecuteReturns(h, "FailedToSaveDisc")
            /\ UNCHANGED <<dest, placed, moved>>
       ELSE /\ f \in mkvs
            /\ IF fs = "mkdir"
               THEN /\ ExecuteReturns(h, "OutputDirError")
                    /\ UNCHANGED <<dest, placed, moved>>
               ELSE IF fs = "rename"
               THEN /\ ExecuteReturns(h, "FailedToSaveDisc")
                    /\ dest' = dest \cup {DestinationDir(h)}
                    /\ UNCHANGED <<placed, moved>>
               ELSE IF ~rename(dest, DestinationPath(h)).ok
               THEN /\ ExecuteReturns(h, "FileAlreadyExists")
                    /\ dest' = dest \cup {DestinationDir(h)}
                    /\ UNCHANGED <<placed, moved>>
               ELSE /\ dest' = dest \cup {DestinationDir(h), DestinationPath(h)}
                    /\ placed' = [placed EXCEPT ![h] = TRUE]
                    /\ moved' = [moved EXCEPT ![h] =
                           [file |-> f, over |-> rename(dest, DestinationPath(h)).over]]
                    /\ IF fs = "close"
                       THEN \* close()? failed: the error is returned and
                            \* the directory could not be removed
                            /\ mkvOwner' = None
                            /\ staged' = [staged EXCEPT ![h] = @ \ {f}]
                            /\ outcome' = [outcome EXCEPT ![h] = "Failed"]
                            /\ reason' = [reason EXCEPT ![h] = "CloseError"]
                            /\ pc' = [pc EXCEPT ![h] = "ReportFail"]
                            /\ UNCHANGED <<staging, output>>
                       ELSE ExecuteReturns(h, "Ok")
    /\ UNCHANGED <<reqVars, regVars, child, cmd, mkvQueue, idx, lastEp, verdict,
                   requests>>

\* --------------------------------------------- completion branch of select!
\* the handler future completes: its locals (the Rip, the Output, the
\* TempDir handle, the reaped Child) are gone; a child still running and a
\* directory still on disk stay
Return(h) ==
    /\ pc' = [pc EXCEPT ![h] = "Done"]
    /\ child' = [child EXCEPT ![h] = IF @ = "running" THEN @ ELSE "none"]
    /\ output' = [output EXCEPT ![h] = NoOutput]
    /\ staging' = [staging EXCEPT ![h] = IF @ = "present" THEN @ ELSE "none"]
    /\ staged' = [staged EXCEPT ![h] = IF staging[h] = "present" THEN @ ELSE {}]
    /\ placed' = [placed EXCEPT ![h] = FALSE]
    /\ moved' = [moved EXCEPT ![h] = NoMove]
    /\ reason' = [reason EXCEPT ![h] = "none"]
    /\ verdict' = [verdict EXCEPT ![h] = "none"]
    /\ lastEp' = [lastEp EXCEPT ![h] = 0]
    /\ idx' = [idx EXCEPT ![h] = 1]
    /\ cmd' = [cmd EXCEPT ![h] = NoCmd]

\* a loop that reads the season directory again before each rip
Continue_Renumber(h) ==
    IF flow[h] = "show" /\ idx[h] < nrips[h]
    THEN /\ idx' = [idx EXCEPT ![h] = @ + 1]
         /\ pc' = [pc EXCEPT ![h] = "Announce"]
         /\ FreshRip(h)
         /\ lastEp' = [lastEp EXCEPT ![h] = get_last_episode_in_dir(title[h], season[h])]
    ELSE /\ Return(h)
         /\ UNCHANGED outcome

\* the for loop goes to the next rip; after the last one the handler sends
\* its summary and returns
Continue(h) ==
    IF flow[h] = "show" /\ idx[h] < nrips[h]
    THEN /\ idx' = [idx EXCEPT ![h] = @ + 1]
         /\ pc' = [pc EXCEPT ![h] = "Announce"]
         /\ FreshRip(h)
         /\ UNCHANGED lastEp
    ELSE /\ Return(h)
         /\ UNCHANGED outcome

\* rip_result was Ok: the branch yields false
Advance(h) ==
    /\ pc[h] = "Advance"
    /\ Continue(h)
    /\ UNCHANGED <<reqVars, regVars, mtxVars, dest, requests>>

\* a handler that runs a failed rip again
ReportFail_Retry(h, ok) ==
    /\ pc[h] = "ReportFail"
    /\ pc' = [pc EXCEPT ![h] = "Select"]
    /\ FreshRip(h)
    /\ UNCHANGED <<reqVars, regVars, mtxVars, dest, requests, idx, lastEp>>

\* rip_result was Err: "Rip Failed" edit.  The movie handler returns the
\* MakeMkvError whatever the edit did; the show handler returns only if the
\* edit failed and otherwise goes on with the next rip
ReportFail(h, ok) ==
    /\ pc[h] = "ReportFail"
    /\ IF flow[h] = "movie" \/ ~ok
       THEN /\ Return(h)
            /\ UNCHANGED outcome
       ELSE Continue(h)
    /\ UNCHANGED <<reqVars, regVars, mtxVars, dest, requests>>

\* ------------------------------------------------- cancel branch of select!
\* a select! that also looked at the cancel interaction after execute had
\* gone past the subprocess
CancelPoints_Late == {"Select", "WaitMutex", "Ripping", "Relocate", "ReportFail"}

\* The positions at which the execute future is pending inside the select!:
\* before its first poll, in MAKE_MKV.lock().await and in
\* command.execute().await.  What follows the subprocess in run_rip has no
\* await that can be pending, and after the select! nobody listens.
CancelPoints == {"Select", "WaitMutex", "Ripping"}

\* The cancel interaction resolves first.  select! drops the execute future
\* before the branch body runs: a queued MAKE_MKV.lock() leaves the queue, a
\* held guard is released, the Child is dropped (kill_on_drop) and so is the
\* TempDir.  Then interaction.defer(): the movie handler logs its error, the
\* show handler returns it with `?` before rip.cancel() is called.
CancelWins(h, deferOk) ==
    /\ pc[h] \in CancelPoints
    /\ mkvQueue' = Dequeue(mkvQueue, h)
    /\ mkvOwner' = IF mkvOwner = h THEN None ELSE mkvOwner
    /\ output' = [output EXCEPT ![h] = NoOutput]
    /\ cmd' = [cmd EXCEPT ![h] = NoCmd]
    /\ IF flow[h] = "show" /\ ~deferOk
       THEN /\ pc' = [pc EXCEPT ![h] = "Done"]
            /\ outcome' = [outcome EXCEPT ![h] = "Cancelled"]
            /\ child' = [child EXCEPT ![h] = IF KillOnDrop(@) = "running" THEN @ ELSE "none"]
            /\ staging' = [staging EXCEPT ![h] = IF TempDirDrop(@) = "present" THEN @ ELSE "none"]
            /\ staged' = [staged EXCEPT ![h] = IF TempDirDrop(staging[h]) = "present" THEN @ ELSE {}]
            /\ verdict' = [verdict EXCEPT ![h] = "none"]
            /\ lastEp' = [lastEp EXCEPT ![h] = 0]
            /\ idx' = [idx EXCEPT ![h] = 1]
       ELSE /\ pc' = [pc EXCEPT ![h] = "CancelCall"]
            /\ child' = [child EXCEPT ![h] = KillOnDrop(@)]
            /\ staging' = [staging EXCEPT ![h] = TempDirDrop(@)]
            /\ staged' = [staged EXCEPT ![h] = IF TempDirDrop(staging[h]) = "present" THEN @ ELSE {}]
            /\ UNCHANGED <<outcome, verdict, lastEp, idx>>
    /\ UNCHANGED <<reqVars, regVars, dest, reason, placed, moved, requests>>

\* Rip::cancel finds MAKE_MKV taken: it waits in the queue
CancelEnqueue(h) ==
    /\ pc[h] = "CancelCall"
    /\ ~MkvAvailable(h)
    /\ mkvQueue' = Append(mkvQueue, h)
    /\ pc' = [pc EXCEPT ![h] = "CancelWait"]
    /\ UNCHANGED <<reqVars, procVars, regVars, mkvOwner, idx, lastEp, dest,
                   outcome, reason, placed, moved, verdict, requests>>

\* a Rip::cancel that unlocks the drive without taking MAKE_MKV
CancelUnlock_NoMutex(h) ==
    /\ pc[h] \in {"CancelCall", "CancelWait"}
    /\ mkvQueue' = Dequeue(mkvQueue, h)
    /\ drives' = unlock_drive(drives, drive[h])
    /\ holder' = NextHolder(drives', h)
    /\ lockOks' = [lockOks EXCEPT ![drive[h]] = 0]
    /\ pc' = [pc EXCEPT ![h] = "CancelEdit"]
    /\ UNCHANGED <<reqVars, procVars, mkvOwner, idx, lastEp, dest, outcome,
                   reason, placed, moved, verdict, requests>>

\* Rip::cancel with the guard: unlock_drive(self.drive_number), guard dropped
CancelUnlock(h) ==
    /\ pc[h] \in {"CancelCall", "CancelWait"}
    /\ MkvAvailable(h)
    /\ mkvQueue' = Dequeue(mkvQueue, h)
    /\ drives' = unlock_drive(drives, drive[h])
    /\ holder' = NextHolder(drives', h)
    /\ lockOks' = [lockOks EXCEPT ![drive[h]] = 0]
    /\ pc' = [pc EXCEPT ![h] = "CancelEdit"]
    /\ UNCHANGED <<reqVars, procVars, mkvOwner, idx, lastEp, dest, outcome,
                   reason, placed, moved, verdict, requests>>

\* a show handler that goes on with the next rip after a cancellation
CancelEdit_NoBreak(h) ==
    /\ pc[h] = "CancelEdit"
    /\ Continue(h)
    /\ UNCHANGED <<reqVars, regVars, mtxVars, dest, requests>>

\* "Rip Cancelled" edit: the movie handler logs its error; the show handler
\* returns it with `?`, else breaks out of the loop.  Either way the
\* handler ends without running another rip
CancelEdit(h) ==
    /\ pc[h] = "CancelEdit"
    /\ outcome' = [outcome EXCEPT ![h] = "Cancelled"]
    /\ Return(h)
    /\ UNCHANGED <<reqVars, regVars, mtxVars, dest, requests>>

\* ----------------------------------------------- cancel after the end
\* a "cancel_rip" arm that releases the drive of the rip it belongs to
cancel_rip_Unlock(reg, d) == unlock_drive(reg, d)

\* the "cancel_rip" arm of the component dispatch: trace!, Ok(())
cancel_rip(reg, d) == reg

\* The cancel button is pressed for a rip of h that has its outcome: no
\* collector is polled for it any more, so all that runs is the dispatch
\* arm of interaction_create.
LateCancel(h) ==
    /\ outcome[h] # "none"
    /\ drives' = cancel_rip(drives, drive[h])
    /\ holder' = NextHolder(drives', h)
    /\ lockOks' = [d \in Drives |-> IF d \in drives' THEN lockOks[d] ELSE 0]
    /\ UNCHANGED <<reqVars, procVars, mtxVars, pc, idx, lastEp, dest, outcome,
                   reason, placed, moved, verdict, requests>>

\* ------------------------------------------------------------------ Next
Next ==
    \E h \in Handlers :
        \/ \E f \in {"movie", "show"}, d \in Drives, t \in Titles,
              s \in Seasons, n \in 1..MaxBatch : Submit(h, f, d, t, s, n)
        \/ GetLastEnqueue(h)
        \/ GetLast(h)
        \/ \E ok \in BOOLEAN : Announce(h, ok)
        \/ ExecutePoll(h)
        \/ ExecuteAcquire(h)
        \/ LockDrive(h)
        \/ \E tmpOk \in BOOLEAN, spawnOk \in BOOLEAN, tid \in RipTitleIds :
              StartRip(h, tmpOk, spawnOk, tid)
        \/ \E o \in RipOutputs, files \in RipStaged : ChildExit(h, o, files)
        \/ Complete(h)
        \/ Classify(h)
        \/ \E f \in {"none"} \cup UNION StagedSets, fs \in FsResults : Relocate(h, f, fs)
        \/ Advance(h)
        \/ \E ok \in BOOLEAN : ReportFail(h, ok)
        \/ \E ok \in BOOLEAN : CancelWins(h, ok)
        \/ CancelEnqueue(h)
        \/ CancelUnlock(h)
        \/ CancelEdit(h)
        \/ LateCancel(h)

Spec == Init /\ [][Next]_vars

\* One interaction alone, with every output makemkvcon can end with, every
\* content of the staging directory and every title: the rips of a single
\* handler, where nothing waits for MAKE_MKV.
NextRip ==
    \E h \in {1} :
        \/ \E f \in {"movie", "show"}, d \in Drives, t \in AllTitles,
              s \in Seasons, n \in 1..MaxBatch :
                requests = 0 /\ Submit(h, f, d, t, s, n)
        \/ GetLast(h)
        \/ \E ok \in BOOLEAN : Announce(h, ok)
        \/ ExecutePoll(h)
        \/ LockDrive(h)
        \/ \E tmpOk \in BOOLEAN, spawnOk \in BOOLEAN, tid \in RipTitleIds :
              StartRip(h, tmpOk, spawnOk, tid)
        \/ \E o \in Outputs, files \in StagedSets : ChildExit(h, o, files)
        \/ Complete(h)
        \/ Classify(h)
        \/ \E f \in {"none"} \cup UNION StagedSets, fs \in FsResults : Relocate(h, f, fs)
        \/ Advance(h)
        \/ \E ok \in BOOLEAN : ReportFail(h, ok)
        \/ \E ok \in BOOLEAN : CancelWins(h, ok)
        \/ CancelUnlock(h)
        \/ CancelEdit(h)

SpecRip == Init /\ [][NextRip]_vars

\* ------------------------------------------------- the title menu and u8
\* select_titles_to_rip, "Please wait while titles are loaded...":
\* get_title_info(drive_number) runs makemkvcon info and parses its output;
\* the handler takes the result with .unwrap(), so anything but Ok ends the
\* task with a panic and no title menu is shown
GetTitleInfo(h, d, l, spawnOk) ==
    /\ pc[h] \in {"Idle", "Done"}
    /\ query' = [query EXCEPT ![h] =
            [drive |-> d,
             dev |-> InfoDevIndex(d),
             malformed |-> spawnOk /\ l.utf8 /\ Malformed(l),
             result |-> get_title_info(l, spawnOk),
             task |-> IF get_title_info(l, spawnOk) = "Ok" THEN "menu" ELSE "panicked"]]
    /\ UNCHANGED <<pc, flow, drive, title, season, nrips, idx, lastEp, procVars,
                   regVars, mtxVars, dest, outcome, reason, placed, moved, verdict,
                   requests, disc>>

\* last_episode + (index as u8) + 1 while the rips vector is built, in a
\* build with overflow checks: the handler task panics before any rip runs
EpisodeOverflow(h) ==
    /\ pc[h] = "Announce"
    /\ flow[h] = "show"
    /\ idx[h] = 1
    /\ lastEp[h] + nrips[h] > U8_MAX
    /\ pc' = [pc EXCEPT ![h] = "Done"]
    /\ lastEp' = [lastEp EXCEPT ![h] = 0]
    /\ UNCHANGED <<reqVars, procVars, regVars, mtxVars, idx, dest, outcome,
                   reason, placed, moved, verdict, requests>>

\* One show interaction on a library that already has files: the title
\* query, the selection of up to MaxBatch titles of the queried drive, and
\* the rips of the batch.
NextLib ==
    \E h \in {1} :
        \/ \E d \in Drives, l \in InfoLines, spawnOk \in BOOLEAN :
                requests = 0 /\ GetTitleInfo(h, d, l, spawnOk)
        \/ \E t \in Titles, s \in Seasons, n \in 1..MaxBatch :
                /\ requests = 0
                /\ query[h].task = "menu"
                /\ Submit(h, "show", query[h].drive, t, s, n)
        \/ GetLast(h)
        \/ EpisodeOverflow(h)
        \/ \E ok \in BOOLEAN : Announce(h, ok)
        \/ ExecutePoll(h)
        \/ LockDrive(h)
        \/ \E tmpOk \in BOOLEAN, spawnOk \in BOOLEAN, tid \in TitleIds :
              StartRip(h, tmpOk, spawnOk, tid)
        \/ \E o \in RipOutputs, files \in StagedSets : ChildExit(h, o, files)
        \/ Complete(h)
        \/ Classify(h)
        \/ \E f \in {"none"} \cup UNION StagedSets, fs \in FsResults : Relocate(h, f, fs)
        \/ Advance(h)
        \/ \E ok \in BOOLEAN : ReportFail(h, ok)
        \/ \E ok \in BOOLEAN : CancelWins(h, ok)
        \/ CancelUnlock(h)
        \/ CancelEdit(h)

SpecLib == InitLib /\ [][NextLib]_vars

\* ------------------------------------------------------- the title parser
\* parse_disc_info reads the next line of the output
ParseLine(l, checked) ==
    /\ disc.act.result = "Run"
    /\ disc.lines < MaxLines
    /\ disc' = [act |-> ParseInfoLine(disc.act, l, checked),
                ref |-> IF UnknownCode(l) THEN disc.ref
                        ELSE ParseInfoLine(disc.ref, l, checked),
                lines |-> disc.lines + 1]
    /\ UNCHANGED <<pc, flow, drive, title, season, nrips, query, idx, lastEp,
                   procVars, regVars, mtxVars, dest, outcome, reason, placed,
                   moved, verdict, requests>>

\* parse_disc_info alone, on every output of up to MaxLines of the lines
NextInfo == \E l \in DiscLines, checked \in BOOLEAN : ParseLine(l, checked)

SpecInfo == Init /\ [][NextInfo]_vars

\* ------------------------------------------------ a query beside a rip
\* Handler 1 rips a movie while handler 2 loads the titles of a drive:
\* get_title_info takes neither MAKE_MKV nor the drive's registry entry.
NextQuery ==
    \/ \E d \in Drives, t \in Titles, s \in Seasons :
            requests = 0 /\ Submit(1, "movie", d, t, s, 1)
    \/ \E ok \in BOOLEAN : Announce(1, ok)
    \/ ExecutePoll(1)
    \/ LockDrive(1)
    \/ \E tmpOk \in BOOLEAN, spawnOk \in BOOLEAN, tid \in RipTitleIds :
          StartRip(1, tmpOk, spawnOk, tid)
    \/ \E o \in RipOutputs, files \in RipStaged : ChildExit(1, o, files)
    \/ Complete(1)
    \/ Classify(1)
    \/ \E f \in {"none"} \cup UNION StagedSets, fs \in FsResults : Relocate(1, f, fs)
    \/ Advance(1)
    \/ \E ok \in BOOLEAN : ReportFail(1, ok)
    \/ \E ok \in BOOLEAN : CancelWins(1, ok)
    \/ CancelUnlock(1)
    \/ CancelEdit(1)
    \/ \E d \in Drives, l \in InfoLines, spawnOk \in BOOLEAN :
            GetTitleInfo(2, d, l, spawnOk)

SpecQuery == Init /\ [][NextQuery]_vars

\* --------------------------------------------------------------- fairness
\* The runtime polls every task that can go on, and makemkvcon exits in the
\* end.  What the user and Discord do (submitting, cancelling, accepting a
\* message edit) is under no obligation.
Fairness ==
    \A h \in Handlers :
        /\ WF_vars(GetLast(h) \/ GetLastEnqueue(h))
        /\ WF_vars(ExecutePoll(h))
        /\ WF_vars(ExecuteAcquire(h))
        /\ WF_vars(LockDrive(h))
        /\ WF_vars(\E tmpOk \in BOOLEAN, spawnOk \in BOOLEAN, tid \in RipTitleIds :
                      StartRip(h, tmpOk, spawnOk, tid))
        /\ WF_vars(\E o \in RipOutputs, files \in RipStaged : ChildExit(h, o, files))
        /\ WF_vars(Complete(h))
        /\ WF_vars(Classify(h))
        /\ WF_vars(\E f \in {"none"} \cup UNION StagedSets, fs \in FsResults :
                      Relocate(h, f, fs))
        /\ WF_vars(CancelEnqueue(h) \/ CancelUnlock(h))

\* Handlers contending for MAKE_MKV with rips of a single title each: the
\* calls of get_last_episode_in_dir, Rip::execute and Rip::cancel of all
\* handlers, with every way a rip can end.
NextLive ==
    \E h \in Handlers :
        \/ \E f \in {"movie", "show"}, d \in Drives, t \in Titles, s \in Seasons :
              Submit(h, f, d, t, s, 1)
        \/ GetLastEnqueue(h)
        \/ GetLast(h)
        \/ \E ok \in BOOLEAN : Announce(h, ok)
        \/ ExecutePoll(h)
        \/ ExecuteAcquire(h)
        \/ LockDrive(h)
        \/ \E tmpOk \in BOOLEAN, spawnOk \in BOOLEAN, tid \in RipTitleIds :
              StartRip(h, tmpOk, spawnOk, tid)
        \/ \E o \in RipOutputs, files \in RipStaged : ChildExit(h, o, files)
        \/ Complete(h)
        \/ Classify(h)
        \/ \E f \in {"none"} \cup UNION StagedSets, fs \in FsResults : Relocate(h, f, fs)
        \/ Advance(h)
        \/ \E ok \in BOOLEAN : ReportFail(h, ok)
        \/ \E ok \in BOOLEAN : CancelWins(h, ok)
        \/ CancelEnqueue(h)
        \/ CancelUnlock(h)
        \/ CancelEdit(h)
        \/ LateCancel(h)

SpecLive == Init /\ [][NextLive]_vars /\ Fairness

\* ================================================================ claims
CancelPcs == {"CancelCall", "CancelWait", "CancelEdit"}

\* the cancel branch of the select! was taken for the current rip of h
CancelObserved(h) == pc[h] \in CancelPcs \/ outcome[h] = "Cancelled"

Running(d) == {h \in Handlers : child[h] = "running" /\ drive[h] = d}

\* C1: on every drive at most one rip has a makemkvcon subprocess that was
\* started and has neither exited nor been killed, in every reachable state.
C1_DriveMutualExclusion ==
    \A d \in Drives : Cardinality(Running(d)) <= 1

\* a rip runs on a drive while another rip for the same drive is waiting
C1_Witness ==
    \E h \in Handlers, g \in Handlers :
        /\ h # g
        /\ child[h] = "running"
        /\ drive[g] = drive[h]
        /\ pc[g] = "WaitMutex"

\* C2: of the lock_drive(d) calls made since d was last unlocked exactly
\* one returned Ok (and d is in the registry exactly then); every call
\* that finds d in the registry returns DriveInUseError and changes nothing.
C2_OneLockWinner ==
    /\ [](\A d \in Drives : lockOks[d] = IF d \in drives THEN 1 ELSE 0)
    /\ [][\A h \in Handlers :
            (pc[h] = "Locking" /\ pc'[h] # "Locking" /\ drive[h] \in drives)
            => (/\ outcome'[h] = "Failed"
                /\ reason'[h] = "DriveInUseError"
                /\ drives' = drives
                /\ holder' = holder)]_vars

\* one lock_drive(d) succeeded and a later caller was turned away
C2_Witness ==
    \E h \in Handlers :
        /\ pc[h] = "ReportFail"
        /\ reason[h] = "DriveInUseError"
        /\ lockOks[drive[h]] = 1
        /\ holder[drive[h]] # h

\* C3: a rip for drive d1 never waits because a rip is running on another
\* drive d2.  (Stated as the claim has it; the code makes it wait for the
\* MAKE_MKV guard, which the running rip holds.)
C3_NoCrossDriveWait ==
    \A h \in Handlers, g \in Handlers :
        ~(/\ pc[h] = "WaitMutex"
          /\ child[g] = "running"
          /\ drive[g] # drive[h])

\* C4: an execute for drive d that finds another rip running on d fails at
\* once with DriveInUse and is never queued behind the running rip.
\* (Stated as the claim has it; the code queues it on the MAKE_MKV guard.)
C4_ImmediateDriveInUse ==
    \A h \in Handlers : ~(pc[h] = "WaitMutex" /\ DriveBusy(h))

\* C5: once the cancel branch has been taken for a rip, the rip can only end
\* Cancelled, it has placed no file in the destination tree and its staging
\* directory does not exist.
C5_CancelLeavesNothing ==
    /\ [](\A h \in Handlers :
            CancelObserved(h) => (~placed[h] /\ staging[h] # "present"))
    /\ [][\A h \in Handlers :
            (pc[h] \in {"Select", "WaitMutex", "Ripping"} \cup CancelPcs
               /\ pc'[h] \in CancelPcs \cup {"Done"})
            => (pc'[h] = "Done" => outcome'[h] = "Cancelled")]_vars

\* a rip was cancelled while its subprocess ran: the staging directory that
\* existed is gone
C5_Witness ==
    \E h \in Handlers :
        /\ pc[h] \in CancelPcs
        /\ child[h] = "killed"
        /\ staging[h] = "removed"

\* C6: a rip that ended Cancelled no longer holds its drive's registry
\* entry, in the movie and in the show handler, whether or not
\* interaction.defer and the message edit failed.  (Stated as the claim has
\* it; the show handler returns on a failed defer before rip.cancel().)
C6_CancelReleasesDrive ==
    \A h \in Handlers :
        (pc[h] = "Done" /\ outcome[h] = "Cancelled")
        => ~(drive[h] \in drives /\ holder[drive[h]] = h)

\* C7: no rip for which the cancel branch was taken has its subprocess
\* still running.
C7_NoOrphanAfterCancel ==
    \A h \in Handlers : CancelObserved(h) => child[h] # "running"

\* the cancel branch was taken while the subprocess ran, and it was killed
C7_Witness ==
    \E h \in Handlers : pc[h] = "CancelEdit" /\ child[h] = "killed"

\* C8: a rip that failed because makemkvcon could not be spawned does not
\* keep its drive's registry entry.  (Stated as the claim has it; run_rip
\* returns the spawn error with `?` before unlock_drive.)
C8_SpawnErrorReleasesDrive ==
    \A h \in Handlers :
        (outcome[h] = "Failed" /\ reason[h] = "CommandExecutionError")
        => ~(drive[h] \in drives /\ holder[drive[h]] = h)

\* C9: a rip's subprocess runs only while the rip holds the drive's
\* registry entry: the entry is taken before the subprocess starts and is
\* removed only when the subprocess no longer runs.
C9_RunsOnlyWhileLocked ==
    /\ [](\A h \in Handlers :
            child[h] = "running"
            => (drive[h] \in drives /\ holder[drive[h]] = h))
    /\ [][\A h \in Handlers :
            /\ (child[h] # "running" /\ child'[h] = "running")
               => (drive[h] \in drives /\ holder[drive[h]] = h)
            /\ (holder[drive[h]] = h /\ holder'[drive[h]] # h)
               => child[h] # "running"]_vars

\* the subprocess of a rip is running under the rip's own lock
C9_Witness ==
    \E h \in Handlers :
        child[h] = "running" /\ holder[drive[h]] = h /\ pc[h] = "Ripping"

\* C10: when the subprocess completed, the drive is unlocked before the
\* output is classified and before relocation: while run_rip classifies and
\* relocates the drive is not in the registry, and the rip does not hold it
\* when execute has returned, with Ok or with a classifier/relocation error.
PostCompletionErrors == {"FailedToSaveDisc", "OutputDirError", "CloseError"}

C12_NoFileUnlessSucceeded ==
    \A h \in Handlers :
        outcome[h] \in {"Failed", "Cancelled"} => ~placed[h]

\* C13: the cancel branch is taken only while execute is pending before or
\* at the subprocess: never once run_rip classifies or relocates, never
\* with a file already moved, and taking it changes nothing in the
\* destination tree; relocation, once started, runs to its own result.
C13_CancelOnlyBeforeRelocation ==
    /\ [][\A h \in Handlers :
            (~CancelObserved(h) /\ (pc'[h] \in CancelPcs \/ outcome'[h] = "Cancelled"))
            => (/\ pc[h] \in {"Select", "WaitMutex", "Ripping"}
                /\ ~placed[h]
                /\ dest' = dest)]_vars
    /\ [][\A h \in Handlers :
            (pc[h] = "Relocate" /\ pc'[h] # "Relocate")
            => pc'[h] \in {"Advance", "ReportFail"}]_vars

\* the cancel won although the subprocess had already exited: run_rip had
\* not gone on to relocation
C13_Witness ==
    \E h \in Handlers :
        pc[h] = "CancelCall" /\ child[h] = "exited" /\ ~placed[h]

\* C14: a cancel delivered for a rip that has its outcome changes nothing:
\* a step in which no handler moves and no subprocess changes (all such a
\* cancel can be) leaves every outcome, the destination tree and the
\* registry, with the entries other rips hold, as they were.
C14_LateCancelNoOp ==
    [][((\E h \in Handlers : outcome[h] # "none") /\ pc' = pc /\ child' = child)
       => (/\ outcome' = outcome
           /\ dest' = dest
           /\ drives' = drives
           /\ holder' = holder)]_vars

\* a rip has ended while another rip holds the lock of the same drive and
\* its subprocess runs: a cancel for the ended rip can arrive here
C14_Witness ==
    \E h \in Handlers, g \in Handlers :
        /\ h # g
        /\ pc[h] = "Done"
        /\ outcome[h] # "none"
        /\ drive[g] = drive[h]
        /\ holder[drive[h]] = g
        /\ child[g] = "running"

\* C15: a rip that entered the select! leaves it with exactly one outcome
\* out of Succeeded, Cancelled and Failed: the completion branch gives
\* Succeeded or Failed, the cancel branch Cancelled, and an outcome once
\* set stays until the handler starts another rip.
C15_OneTerminalOutcome ==
    /\ [](\A h \in Handlers :
            /\ outcome[h] \in {"none", "Succeeded", "Failed", "Cancelled"}
            /\ pc[h] = "Advance" => outcome[h] = "Succeeded"
            /\ pc[h] = "ReportFail" => outcome[h] = "Failed"
            /\ pc[h] \in {"Select", "WaitMutex", "Locking", "Starting",
                          "Ripping", "Classify", "Relocate"} \cup CancelPcs
               => outcome[h] = "none")
    /\ [][\A h \in Handlers :
            /\ outcome[h] # "none"
               => (outcome'[h] = outcome[h] \/ pc'[h] \in {"Announce", "GetLast"})
            /\ (pc[h] \in {"Select", "WaitMutex", "Locking", "Starting",
                           "Ripping", "Classify", "Relocate"} \cup CancelPcs
                /\ pc'[h] \in {"Done", "Advance", "ReportFail"})
               => outcome'[h] # "none"]_vars

\* completion and cancel raced (the subprocess had exited) and the cancel
\* branch is about to give the outcome
C15_Witness ==
    \E h \in Handlers :
        pc[h] = "CancelEdit" /\ child[h] = "exited" /\ outcome[h] = "none"

\* the step in which run_rip classifies the output of h
ClassifyStep(h) == pc[h] = "Classify" /\ pc'[h] # "Classify"

\* C16: stated as the claim has it: for every output with a success status
\* whose stdout contains "Failed to save", check_makemkv_output returns
\* FailedToSaveDisc (UnreadableDisc) and the rip fails without relocating.
C16_MarkerIsUnreadableDisc ==
    [][\A h \in Handlers :
        (ClassifyStep(h) /\ Success(output[h]) /\ output[h].marker)
        => (/\ verdict'[h] = "FailedToSaveDisc"
            /\ outcome'[h] = "Failed"
            /\ dest' = dest)]_vars

\* C16 (amended): for every output with a success status whose stdout is
\* valid UTF-8 and contains "Failed to save", check_makemkv_output returns
\* FailedToSaveDisc; and for every output with a success status and the
\* marker, decodable or not, the rip ends Failed, never Succeeded, and
\* relocates nothing.
C16_DecodedMarkerIsUnreadableDisc ==
    /\ [][\A h \in Handlers :
            (ClassifyStep(h) /\ Success(output[h]) /\ output[h].marker)
            => (/\ output[h].utf8 => verdict'[h] = "FailedToSaveDisc"
                /\ ~output[h].utf8 => verdict'[h] = "InvalidOutputFormat"
                /\ pc'[h] = "ReportFail"
                /\ outcome'[h] = "Failed"
                /\ dest' = dest)]_vars
    /\ [](\A h \in Handlers :
            verdict[h] = "FailedToSaveDisc"
            => (~placed[h] /\ outcome[h] \in {"none", "Failed"}))

\* a rip whose output had the marker under a success status has failed
C16_Witness ==
    \E h \in Handlers :
        /\ pc[h] = "ReportFail"
        /\ verdict[h] = "FailedToSaveDisc"
        /\ outcome[h] = "Failed"
        /\ ~placed[h]

\* C17: stated as the claim has it: for every output with exit code 11 the
\* classifier returns DriveError (TransientDriveError) when stdout has at
\* most 3 lines and UnknownError when it has more.
C17_OpenFailedByLines ==
    [][\A h \in Handlers :
        (ClassifyStep(h) /\ output[h].code = OPEN_FAILED_CODE)
        => verdict'[h] = IF output[h].lines <= LINE_LIMIT
                         THEN "DriveError" ELSE "UnknownError"]_vars

\* C17 (amended): for every output with exit code 11 whose stdout is valid
\* UTF-8 the classifier returns DriveError when stdout has at most 3 lines
\* and UnknownError when it has 4 or more; stdout that is not valid UTF-8
\* gives InvalidOutputFormat whatever its line count.
C17_DecodedOpenFailedByLines ==
    [][\A h \in Handlers :
        (ClassifyStep(h) /\ output[h].code = OPEN_FAILED_CODE)
        => verdict'[h] = IF ~output[h].utf8 THEN "InvalidOutputFormat"
                         ELSE IF output[h].lines <= LINE_LIMIT
                         THEN "DriveError" ELSE "UnknownError"]_vars

\* an output with exit code 11 and 3 lines was classified as a drive error
C17_Witness ==
    \E h \in Handlers : pc[h] = "ReportFail" /\ verdict[h] = "DriveError"

\* the four kinds of result the decision table has
TableResults == {"Ok", "FailedToSaveDisc", "DriveError", "UnknownError"}

\* C18: stated as the claim has it: for every exit status, marker and line
\* count the classifier gives Ok for success without the marker and
\* UnknownError for every non-success status other than 11, and never a
\* result outside the four kinds.
C18_DecisionTable ==
    [][\A h \in Handlers :
        ClassifyStep(h)
        => (/\ verdict'[h] \in TableResults
            /\ (Success(output[h]) /\ ~output[h].marker) => verdict'[h] = "Ok"
            /\ (~Success(output[h]) /\ output[h].code # OPEN_FAILED_CODE)
               => verdict'[h] = "UnknownError")]_vars

\* C18 (amended): stdout that is not valid UTF-8 gives InvalidOutputFormat
\* before the table is consulted; for stdout that is valid UTF-8 the four
\* rows apply in order: success with the marker FailedToSaveDisc, success
\* without it Ok, code 11 DriveError or UnknownError by the line count,
\* every other status (another code, or none for a signal) UnknownError.
C18_DecisionTableAfterDecoding ==
    [][\A h \in Handlers :
        ClassifyStep(h)
        => LET o == output[h]
               v == verdict'[h]
           IN /\ v \in TableResults \cup {"InvalidOutputFormat"}
              /\ v = "InvalidOutputFormat" <=> ~o.utf8
              /\ o.utf8 =>
                   /\ (Success(o) /\ o.marker) => v = "FailedToSaveDisc"
                   /\ (Success(o) /\ ~o.marker) => v = "Ok"
                   /\ (~Success(o) /\ o.code = OPEN_FAILED_CODE)
                      => v \in {"DriveError", "UnknownError"}
                   /\ (~Success(o) /\ o.code # OPEN_FAILED_CODE)
                      => v = "UnknownError"]_vars

\* an output was classified by the last row of the table
C18_Witness ==
    \E h \in Handlers : pc[h] = "ReportFail" /\ verdict[h] = "UnknownError"

\* C19: when the classifier rejects the output, the error execute returns
\* is the classifier's, so that FailedToSaveDisc, DriveError and
\* UnknownError reach the caller as different reasons.  (Stated as the
\* claim has it; run_rip returns FailedToSaveDisc for every rejection.)
C19_FailureCarriesKind ==
    [][\A h \in Handlers :
        (pc[h] = "Classify" /\ pc'[h] = "ReportFail")
        => reason'[h] = verdict'[h]]_vars

\* C20: a Movie rip that succeeded has its file at movies/X/X.mkv, its
\* staging directory gone and its drive released, whatever the title X.
\* (Stated as the claim has it; with_extension cuts X at its last ".".)
C20_MovieLandsAtTitleMkv ==
    \A h \in Handlers :
        (flow[h] = "movie" /\ pc[h] = "Advance")
        => (/\ <<"movies", title[h], title[h] \o <<".", "mkv">>>> \in dest
            /\ staging[h] # "present"
            /\ ~(drive[h] \in drives /\ holder[drive[h]] = h))

\* the path the claim gives for episode e of season s of the show t
EpisodeFile(t, s, e) ==
    <<"shows", t, s, <<"Episode ">> \o ToDigits(e) \o <<".", "mkv">>>>

\* C21: the step of a successful Episode rip that moves the staged file adds
\* to the destination tree shows/<title>/Season s and, in it,
\* Episode e.mkv, and nothing else, whichever file was staged and whichever
\* drive was read; a show rip that succeeded has its file there.
C21_EpisodeLandsAtSeasonDir ==
    [][\A h \in Handlers :
        (flow[h] = "show" /\ pc[h] = "Relocate" /\ placed'[h])
        => (/\ dest' = dest \cup {<<"shows", title[h], season[h]>>,
                                  EpisodeFile(title[h], season[h], EpisodeOf(h, idx[h]))}
            /\ pc'[h] = "Advance" => outcome'[h] = "Succeeded")]_vars

\* a show rip read from the second drive succeeded as the first episode of
\* its season
C21_Witness ==
    /\ pc[1] = "Advance"
    /\ flow[1] = "show"
    /\ drive[1] = 2
    /\ EpisodeFile(title[1], season[1], 1) \in dest

\* C22: when the classifier accepted the output and the staging directory
\* holds no .mkv file (it is empty or holds only other files), the rip ends
\* Failed, the destination tree is left as it was and the staging directory
\* is removed.
C22_NoMkvFails ==
    [][\A h \in Handlers :
        (pc[h] = "Relocate" /\ pc'[h] # "Relocate" /\ staged[h] \subseteq {"log.txt"})
        => (/\ pc'[h] = "ReportFail"
            /\ outcome'[h] = "Failed"
            /\ dest' = dest
            /\ ~placed'[h]
            /\ staging'[h] = "removed")]_vars

\* a rip whose output was accepted failed without touching the destination
C22_Witness ==
    /\ pc[1] = "ReportFail"
    /\ verdict[1] = "Ok"
    /\ reason[1] = "FailedToSaveDisc"
    /\ staging[1] = "removed"
    /\ dest = {}

\* the N of a file named "Episode N.mkv", NoEpisode for every other name
EpisodeNOfName(name) ==
    IF Len(name) < 4 THEN NoEpisode
    ELSE IF name[1] # "Episode " \/ name[Len(name) - 1] # "." \/ name[Len(name)] # "mkv"
    THEN NoEpisode
    ELSE IF \E i \in 2..(Len(name) - 2) : ~IsDigit(name[i]) THEN NoEpisode
    ELSE FromDigits(SubSeq(name, 2, Len(name) - 2))

\* C23: next_episode returns 0 when the season directory does not exist and
\* otherwise the largest N over the files named "Episode N.mkv", for every
\* N that appears, 0 when there is none; other names are skipped.  (Stated
\* as the claim has it; the helper reads N as u8 and takes the second word
\* of the name.)
C23_LastEpisodeIsMaxN ==
    [][\A h \in Handlers :
        (pc[h] \in {"GetLast", "GetLastWait"} /\ pc'[h] = "Announce")
        => lastEp'[h] =
             IF <<"shows", title[h], season[h]>> \notin dest THEN 0
             ELSE MaxOf({EpisodeNOfName(n) : n \in SeasonFiles(title[h], season[h])}
                        \ {NoEpisode})]_vars

\* the rips of the batch of h have their episode numbers
Numbered(h) ==
    flow[h] = "show" /\ pc[h] \notin {"Idle", "Done", "GetLast", "GetLastWait"}

\* C24: in a batch of k titles whose season has last episode L the i-th
\* rip gets episode L + i: the numbers are pairwise distinct and all above
\* L.  (Stated as the claim has it; the sum is computed in u8.)
C24_EpisodesDistinctAboveLast ==
    \A h \in Handlers :
        Numbered(h)
        => \A i \in 1..nrips[h] :
              /\ EpisodeOf(h, i) = lastEp[h] + i
              /\ EpisodeOf(h, i) > lastEp[h]
              /\ \A j \in 1..nrips[h] : EpisodeOf(h, i) = EpisodeOf(h, j) => i = j

\* C25: the rips of a batch run one at a time in the order of the vector:
\* the handler moves on only by one position, only when the rip it leaves
\* is Succeeded or Failed, and never while that rip's makemkvcon is
\* running; a handler has a subprocess only for the rip it is at.
C25_BatchSequential ==
    [][\A h \in Handlers :
        (idx'[h] # idx[h] /\ pc'[h] = "Announce")
        => (/\ idx'[h] = idx[h] + 1
            /\ outcome[h] \in {"Succeeded", "Failed"}
            /\ pc[h] \in {"Advance", "ReportFail"}
            /\ child[h] # "running"
            /\ child'[h] = "none")]_vars

\* the second rip of a batch has its subprocess running
C25_Witness ==
    /\ flow[1] = "show"
    /\ idx[1] = 2
    /\ pc[1] = "Ripping"
    /\ child[1] = "running"

\* C26: once the cancel branch was taken for rip i of a batch the handler
\* only finishes the cancellation and ends: it starts no later rip, spawns
\* nothing, and no file of the destination tree is removed.
C26_CancelStopsBatch ==
    [][\A h \in Handlers :
        /\ dest \subseteq dest'
        /\ pc[h] \in CancelPcs
           => (/\ pc'[h] \in CancelPcs \cup {"Done"}
               /\ idx'[h] = idx[h] \/ pc'[h] = "Done"
               /\ child'[h] # "running")]_vars

\* the first rip of a batch of two was cancelled
C26_Witness ==
    /\ flow[1] = "show"
    /\ pc[1] = "CancelEdit"
    /\ idx[1] < nrips[1]

\* how far a rip has come
RipRank(p) ==
    CASE p \in {"Idle", "GetLast", "GetLastWait"} -> 0
      [] p = "Announce" -> 1
      [] p = "Select" -> 2
      [] p = "WaitMutex" -> 3
      [] p = "Locking" -> 4
      [] p = "Starting" -> 5
      [] p = "Ripping" -> 6
      [] p = "Classify" -> 7
      [] p = "Relocate" -> 8
      [] p \in {"Advance", "ReportFail"} \cup CancelPcs -> 9
      [] p = "Done" -> 10

\* C27: nothing is tried twice for a rip: while the handler stays at the
\* same rip it never goes back, the drive lock is taken only by the step
\* that leaves "Locking" and a subprocess is spawned only by the step that
\* leaves "Starting", so that each rip attempts the lock at most once and
\* spawns at most one subprocess.
C27_NoRetry ==
    [][\A h \in Handlers :
        /\ (idx'[h] = idx[h] /\ requests' = requests)
           => RipRank(pc'[h]) >= RipRank(pc[h])
        /\ (child'[h] = "running" /\ child[h] # "running") => pc[h] = "Starting"
        /\ (lockOks' # lockOks /\ pc'[h] = "Starting" /\ pc[h] # pc'[h])
           => pc[h] = "Locking"]_vars

\* a rip failed to spawn its subprocess and is reported, not run again
C27_Witness ==
    pc[1] = "ReportFail" /\ reason[1] = "CommandExecutionError"

\* C28: unlock_drive always succeeds and is idempotent: on every registry
\* the program reaches, unlocking a drive removes it and nothing else,
\* unlocking an absent drive changes nothing, and unlocking twice is
\* unlocking once; the steps that call it leave the registry without the
\* drive and the other entries as they were.
C28_UnlockIdempotent ==
    /\ [](\A d \in Drives :
            /\ d \notin unlock_drive(drives, d)
            /\ \A e \in Drives \ {d} : e \in unlock_drive(drives, d) <=> e \in drives
            /\ d \notin drives => unlock_drive(drives, d) = drives
            /\ unlock_drive(unlock_drive(drives, d), d) = unlock_drive(drives, d))
    /\ [][\A h \in Handlers :
            (pc'[h] # pc[h] /\ pc'[h] \in {"CancelEdit", "Classify"})
            => drives' = drives \ {drive[h]}]_vars

\* a rip that never locked its drive was cancelled and its cancel unlocked
\* the absent drive while another drive stayed locked
C28_Witness ==
    \E h \in Handlers :
        /\ pc[h] = "CancelEdit"
        /\ child[h] = "none"
        /\ staging[h] = "none"
        /\ idx[h] = 1
        /\ drives = Drives \ {drive[h]}

\* C29: for a drive number of at least 1 and a title id of at least 1 the
\* rip command names device sr<drive - 1> and title <title id - 1>, neither
\* wrapped around, and the title query of the same drive names the same
\* device.
C29_ZeroBasedIndexes ==
    \A h \in Handlers :
        /\ (pc[h] = "Ripping" /\ drive[h] >= 1 /\ cmd[h].title_id >= 1)
           => (/\ cmd[h].dev = drive[h] - 1
               /\ cmd[h].title = cmd[h].title_id - 1)
        /\ (query[h].result # "none" /\ query[h].drive >= 1)
           => query[h].dev = query[h].drive - 1
        /\ (pc[h] = "Ripping" /\ query[h].drive = drive[h])
           => query[h].dev = cmd[h].dev

\* the largest title id is ripped from the second drive, after its query
C29_Witness ==
    /\ pc[1] = "Ripping"
    /\ drive[1] = 2
    /\ query[1].drive = 2
    /\ cmd[1].title_id = U8_MAX

\* C30: when the output of the title query has a malformed line,
\* get_title_info returns ParseError and the task that handles the
\* interaction goes on.  (Stated as the claim has it; a missing field is
\* indexed, and the caller unwraps the result.)
C30_MalformedIsParseError ==
    \A h \in Handlers :
        query[h].malformed
        => (query[h].result = "ParseError" /\ query[h].task # "panicked")

\* the staged .mkv file that is first by name
LexFirst(files) == IF "t00.mkv" \in files THEN "t00.mkv" ELSE "t01.mkv"

\* C31: when the staging directory holds more than one .mkv file, the file
\* the relocation renames is the first by name, in whatever order the
\* directory listing returns the entries.  (Stated as the claim has it;
\* run_rip takes the first entry of the listing.)
C31_FirstByNameIsMoved ==
    [][\A h \in Handlers :
        (placed'[h] /\ ~placed[h])
        => moved'[h].file = LexFirst({x \in staged[h] : IsMkv(x)})]_vars

\* C32: nothing keeps two batches for the same title and season apart: a
\* relocation is never refused because its target exists, and the step that
\* renames onto an existing path succeeds as a relocation and leaves the
\* destination tree with the same paths, the earlier file replaced.
C32_CollidingBatchesReplace ==
    /\ [](\A h \in Handlers : reason[h] # "FileAlreadyExists")
    /\ [][\A h \in Handlers :
            (moved'[h].over /\ ~moved[h].over)
            => (/\ placed'[h]
                /\ DestinationPath(h) \in dest
                /\ dest' = dest)]_vars

\* two batches for the same title and season read the same last episode,
\* both rips were numbered alike, and the later rename replaced the file of
\* the earlier one
C32_Witness ==
    \E h \in Handlers, g \in Handlers :
        /\ h # g
        /\ flow[h] = "show" /\ flow[g] = "show"
        /\ title[h] = title[g] /\ season[h] = season[g]
        /\ pc[h] = "Advance" /\ pc[g] = "Advance"
        /\ lastEp[h] = lastEp[g]
        /\ idx[h] = idx[g]
        /\ placed[g] /\ ~moved[g].over
        /\ placed[h] /\ moved[h].over

\* C33: lines with a code the parser does not know are skipped: the disc
\* name, the titles and the result are what they would be had these lines
\* not been in the output.  (Stated as the claim has it; a TINFO line sets
\* the title id before its info code is looked at.)
C33_UnknownCodesSkipped ==
    /\ disc.act.result = disc.ref.result
    /\ disc.act.disc_name = disc.ref.disc_name
    /\ disc.act.titles = disc.ref.titles

\* g took the registry entry of its drive and has not reached its own
\* unlock_drive: it is about to spawn makemkvcon or waits for it
HoldsWhileRipping(g) ==
    /\ pc[g] \in {"Starting", "Ripping"}
    /\ drive[g] \in drives
    /\ holder[drive[g]] = g

\* C34: the unlock_drive of Rip::cancel never runs between the lock_drive
\* of another rip on the same drive and that rip's own unlock: no step in
\* which a cancel unlocks a drive finds another handler holding that
\* drive's entry while ripping, and such an entry is removed only by a step
\* of its holder.
C34_CancelSparesRunningRip ==
    [][\A h \in Handlers, g \in Handlers :
        (h # g /\ HoldsWhileRipping(g) /\ drive[h] = drive[g])
        => (/\ ~(pc[h] \in {"CancelCall", "CancelWait"} /\ pc'[h] = "CancelEdit")
            /\ drive[g] \notin drives' => pc'[g] # pc[g])]_vars

\* a cancel for a drive waits for MAKE_MKV while another handler rips on
\* that drive and holds its entry
C34_Witness ==
    \E h \in Handlers, g \in Handlers :
        /\ h # g
        /\ pc[h] = "CancelWait"
        /\ drive[h] = drive[g]
        /\ HoldsWhileRipping(g)
        /\ child[g] = "running"

\* C35: when execute has returned, the rip no longer holds the registry
\* entry of its drive, whichever return of run_rip was taken after
\* lock_drive succeeded.  (Stated as the claim has it; the `?` after
\* TempDir::with_prefix_in returns before unlock_drive.)
C35_EveryReturnReleases ==
    \A h \in Handlers :
        pc[h] \in {"Advance", "ReportFail"}
        => ~(drive[h] \in drives /\ holder[drive[h]] = h)

C38_NeverReplaces ==
    [][\A h \in Handlers :
        (pc[h] = "Relocate" /\ pc'[h] # "Relocate" /\ DestinationPath(h) \in dest)
        => (/\ outcome'[h] = "Failed"
            /\ ~placed'[h]
            /\ ~moved'[h].over)]_vars

\* the handler is inside get_last_episode_in_dir, Rip::execute or
\* Rip::cancel
InCall(h) ==
    pc[h] \in {"GetLast", "GetLastWait", "Select", "WaitMutex", "Locking",
               "Starting", "Ripping", "Classify", "Relocate", "CancelCall",
               "CancelWait"}

\* C36: with fair scheduling and subprocesses that exit, every call of
\* get_last_episode_in_dir, Rip::execute and Rip::cancel returns (or, for
\* execute, is dropped by a cancellation), however the handlers contend for
\* MAKE_MKV: a handler that waits for the guard gets it.
C36_EveryCallReturns ==
    \A h \in Handlers :
        /\ InCall(h) ~> ~InCall(h)
        /\ (pc[h] \in {"WaitMutex", "GetLastWait", "CancelWait"})
           ~> (pc[h] \notin {"WaitMutex", "GetLastWait", "CancelWait"})

\* an execute waits for MAKE_MKV behind another waiter while a third call
\* holds the guard
C36_Witness ==
    \E h \in Handlers :
        /\ pc[h] = "WaitMutex"
        /\ mkvOwner \notin {None, h}
        /\ Len(mkvQueue) >= 1
        /\ child[mkvOwner] = "running"

\* C39: while a rip subprocess runs on a drive, no title query is started
\* on that drive.  (Stated as the claim has it; get_title_info takes
\* neither MAKE_MKV nor the drive's registry entry.)
C39_NoQueryWhileRipping ==
    [][\A h \in Handlers :
        (query'[h] # query[h] /\ query'[h].result # "CommandExecutionError")
        => ~(\E g \in Handlers :
                child[g] = "running" /\ drive[g] = query'[h].drive)]_vars

====
